---- MODULE Spec2Model ----
(***************************************************************************)
(* A model of sink-switch.py: one short-lived process per invocation, the  *)
(* PulseAudio server (sinks, sink-inputs, default sink), the notification  *)
(* service and the scratch file /tmp/sink_switch_storage around it.        *)
(*                                                                         *)
(* Text is modelled as sequences of one-character strings, so that         *)
(* str.find, str.split(",") and the f-string written to the scratch file   *)
(* are computed as the code computes them.                                 *)
(*                                                                         *)
(* Spec       any command line at every invocation, streams opening and    *)
(*            closing while an invocation runs.                            *)
(* SpecSelect the no-argument command line on every sink list.             *)
(* SpecRot    one --match-next-group command line repeated for ever, from  *)
(*            no scratch file, under weak fairness of the program's steps. *)
(*                                                                         *)
(* pacmd is taken to be installed and its listings to parse; a failing     *)
(* listing ends the invocation before anything modelled here happens.      *)
(***************************************************************************)
EXTENDS Integers, Sequences, FiniteSets, TLC

\* ------------------------------------------------------------------ bounds
\* Longest --match-next-group argument list that is enumerated.
MaxGroupLen == 2
\* Most sink-inputs the audio server holds at a time.
MaxStreams == 2
\* Most notification ids the service hands out before its counter wraps.
MaxId == 2
\* Longest run of same-group invocations the round-robin observer follows.
MaxRuns == 4
\* Longest sink list the next-sink policy is enumerated on.
MaxSinks == 3

\* ------------------------------------------------------------------- text
Digit == <<"0", "1", "2", "3", "4", "5", "6", "7", "8", "9">>

DigitSet == {Digit[i] : i \in 1..10}

DigitValue(c) == (CHOOSE i \in 1..10 : Digit[i] = c) - 1

RECURSIVE IntToStr(_)
\* str(n) of a non-negative int, as the f-string of line 119 formats it.
IntToStr(n) ==
    IF n < 10 THEN <<Digit[n + 1]>>
    ELSE IntToStr(n \div 10) \o <<Digit[(n % 10) + 1]>>

IsDigits(s) == Len(s) > 0 /\ \A i \in 1..Len(s) : s[i] \in DigitSet

RECURSIVE StrToInt(_)
\* int(s) of a string of decimal digits.
StrToInt(s) ==
    IF Len(s) = 0 THEN 0
    ELSE 10 * StrToInt(SubSeq(s, 1, Len(s) - 1)) + DigitValue(s[Len(s)])

\* hay.find(needle) != -1
Find(hay, needle) ==
    \E i \in 0..(Len(hay) - Len(needle)) : SubSeq(hay, i + 1, i + Len(needle)) = needle

RECURSIVE Split(_)
\* s.split(",")
Split(s) ==
    IF \A i \in 1..Len(s) : s[i] # "," THEN <<s>>
    ELSE LET i == CHOOSE k \in 1..Len(s) : s[k] = "," /\ \A j \in 1..(k - 1) : s[j] # ","
         IN  <<SubSeq(s, 1, i - 1)>> \o Split(SubSeq(s, i + 1, Len(s)))

\* ---------------------------------------------------------- Python values
PyNone == [t |-> "None", n |-> 0, s |-> <<>>]

PyInt(k) == [t |-> "int", n |-> k, s |-> <<>>]

PyStr(x) == [t |-> "str", n |-> 0, s |-> x]

\* str(v), as an f-string formats v
Format(v) ==
    CASE v.t = "None" -> <<"N", "o", "n", "e">>
      [] v.t = "int"  -> IntToStr(v.n)
      [] OTHER        -> v.s

\* bool(v)
Truthy(v) ==
    CASE v.t = "None" -> FALSE
      [] v.t = "int"  -> v.n # 0
      [] OTHER        -> Len(v.s) > 0

\* ------------------------------------------------------------------ names
Speakers == <<"S", "p", "e", "a", "k", "e", "r", "s">>

Headphones == <<"H", "e", "a", "d", "p", "h", "o", "n", "e", "s">>

UsbDac == <<"U", "S", "B", " ", "D", "A", "C">>

WebcamMic == <<"C", "a", "m", " ", "M", "i", "c">>

HdmiOut == <<"H", "D", "M", "I", ",", "2">>

DAC == <<"D", "A", "C">>

Mic == <<"M", "i", "c">>

USB == <<"U", "S", "B">>

BT == <<"B", "T">>

\* ------------------------------------------------------------- the classes
\* Sink(index, name, state): selected is derived from state.
Sink(index, name, state) ==
    [index |-> index, name |-> name, state |-> state,
     selected |-> state \in {"RUNNING", "IDLE"}]

\* Sink_Input(index, application_name, sink, state); the application name, the
\* sink and the state are parsed and only ever printed, so the record keeps index.
Sink_Input(index) == [index |-> index]

NoSink == [index |-> -1, name |-> <<>>, state |-> "", selected |-> FALSE]

SinkStates == {"RUNNING", "IDLE", "SUSPENDED"}

\* ------------------------------------------------- what the audio server holds
\* A sink inventory as `pacmd list-sinks` reports it: (name, state) per sink, the
\* sink at position i carrying index i - 1.
DeskInventory == <<[name |-> Speakers, state |-> "RUNNING"],
                   [name |-> Headphones, state |-> "IDLE"]>>

StudioInventory == <<[name |-> UsbDac, state |-> "SUSPENDED"],
                     [name |-> WebcamMic, state |-> "RUNNING"],
                     [name |-> HdmiOut, state |-> "SUSPENDED"]>>

Inventories == {DeskInventory, StudioInventory}

NamePool == <<Speakers, Headphones, UsbDac, WebcamMic, HdmiOut>>

\* Every inventory of 0..MaxSinks sinks, whatever their states.
AllInventories ==
    UNION {{[i \in 1..n |-> [name |-> NamePool[((i - 1) % Len(NamePool)) + 1], state |-> st[i]]] :
                st \in [1..n -> SinkStates]} : n \in 0..MaxSinks}

StreamIds == 1..MaxStreams

VARIABLES
    server_sinks,   \* the server's sink inventory
    streams,        \* the indices of the server's sink-inputs
    default_sink,   \* the server's default sink (-1: the one it booted with)
    file,           \* /tmp/sink_switch_storage
    notif_counter,  \* the notification service's last allocated id
    session,        \* which command lines the user types
    pc,             \* where the running invocation stands
    args,           \* argparse's namespace
    sinks,          \* main's sinks
    loaded,         \* current_match, notification_id as read from the file
    next_value,     \* the group entry chosen
    target,         \* the sink passed to switch_to_sink
    inputs,         \* the sink-inputs switch_to_sink fetched
    cmds,           \* pacmd commands issued by this invocation, in order
    notes,          \* Notify calls made by this invocation, in order
    new_id,         \* new_notification_id
    switched,       \* what switch_to_sink_with_name returned as switched
    exit_status,    \* -1 while running
    raised,         \* the uncaught exception, "" when none
    rot,            \* observer: the run of same-group invocations since a clean start
    prev_handle,    \* observer: handle returned by the last Notify of earlier invocations
    only_gn,        \* observer: clean start and only --match-next-group --notify so far
    late,           \* observer: streams opened since get_sinks and alive at the fetch
    listed          \* observer: the server's streams at the time of the fetch

vars == <<server_sinks, streams, default_sink, file, notif_counter, session, pc, args,
          sinks, loaded, next_value, target, inputs, cmds, notes, new_id, switched,
          exit_status, raised, rot, prev_handle, only_gn, late, listed>>

server == <<server_sinks, streams, default_sink>>
locals == <<args, sinks, loaded, next_value, target, inputs, cmds, notes, new_id,
            switched, exit_status, raised>>
observers == <<rot, prev_handle, only_gn>>
watch == <<late, listed>>

\* ------------------------------------------------------------ the scratch file
FileAbsent == [kind |-> "absent", text |-> <<>>]

FileUnreadable == [kind |-> "unreadable", text |-> <<>>]

FileText(t) == [kind |-> "text", text |-> t]

\* ------------------------------------------------------------- pure functions
\* get_sinks: one Sink per record of the listing, in listing order.
get_sinks(listing) ==
    [i \in 1..Len(listing) |-> Sink(i - 1, listing[i].name, listing[i].state)]

RECURSIVE InputsOf(_)
InputsOf(ids) ==
    IF ids = {} THEN <<>>
    ELSE LET m == CHOOSE x \in ids : \A y \in ids : x <= y
         IN  <<Sink_Input(m)>> \o InputsOf(ids \ {m})

\* get_sink_inputs: one Sink_Input per record of the listing, in listing order
\* (pacmd lists by ascending index).
get_sink_inputs(live) == InputsOf(live)

RECURSIVE NextSinkLoop(_, _, _)
\* the loop of switch_to_next_sink from iteration i (0-based) on
NextSinkLoop(ss, i, next_sink) ==
    IF i >= Len(ss) THEN next_sink
    ELSE NextSinkLoop(ss, i + 1,
            IF ss[i + 1].selected
            THEN (IF i = Len(ss) - 1 THEN ss[1] ELSE ss[i + 2])
            ELSE next_sink)

\* A plausible slip: stop at the first selected sink.
NextSinkFirstSelected(ss) ==
    IF \E i \in 1..Len(ss) : ss[i].selected
    THEN LET i == CHOOSE k \in 1..Len(ss) : ss[k].selected /\ \A j \in 1..(k - 1) : ~ss[j].selected
         IN  ss[(i % Len(ss)) + 1]
    ELSE ss[1]

\* next_sink as switch_to_next_sink passes it on
NextSinkTarget(ss) == NextSinkLoop(ss, 0, ss[1])

\* The state read at the top of switch_to_next_sink_from_group.
LoadState(f) ==
    CASE f.kind = "absent" ->
            [raised |-> "", current_match |-> PyNone, notification_id |-> PyInt(0)]
      [] f.kind = "unreadable" ->
            [raised |-> "PermissionError", current_match |-> PyNone, notification_id |-> PyInt(0)]
      [] OTHER ->
            LET file_content == Split(f.text)
            IN  IF Len(file_content) = 2
                THEN [raised |-> "", current_match |-> PyStr(file_content[1]),
                      notification_id |-> PyStr(file_content[2])]
                ELSE [raised |-> "", current_match |-> PyNone, notification_id |-> PyInt(0)]

\* A plausible slip: the entry found, not the one after it.
NextValueNoAdvance(match_group, current_match) ==
    IF \E i \in 1..Len(match_group) : PyStr(match_group[i]) = current_match
    THEN current_match.s
    ELSE match_group[1]

\* next_value of switch_to_next_sink_from_group (lines 104-112)
NextValue(match_group, current_match) ==
    IF \E i \in 1..Len(match_group) : PyStr(match_group[i]) = current_match
    THEN LET index == (CHOOSE k \in 1..Len(match_group) :
                          /\ PyStr(match_group[k]) = current_match
                          /\ \A j \in 1..(k - 1) : PyStr(match_group[j]) # current_match) - 1
         IN  match_group[((index + 1) % Len(match_group)) + 1]
    ELSE match_group[1]

\* Position of the first sink whose name contains device_name; 0 when none does.
FirstMatch(ss, device_name) ==
    IF \E i \in 1..Len(ss) : Find(ss[i].name, device_name)
    THEN CHOOSE k \in 1..Len(ss) :
            /\ Find(ss[k].name, device_name)
            /\ \A j \in 1..(k - 1) : ~Find(ss[j].name, device_name)
    ELSE 0

\* The text written on a successful group rotation.
SavedText(name, id) == name \o <<",">> \o Format(id)

\* ------------------------------------------------------------ notifications
\* replacement_id of send_notification: notification_id or 0
ReplacementId(notification_id) ==
    IF Truthy(notification_id) THEN notification_id ELSE PyInt(0)

\* The D-Bus binding marshals replaces_id as a uint32: an int goes as it is, a str
\* goes through int(), which raises on text that is no number.
Marshals(v) == v.t = "int" \/ (v.t = "str" /\ IsDigits(v.s))

Marshalled(v) == IF v.t = "int" THEN v.n ELSE StrToInt(v.s)

\* org.freedesktop.Notifications.Notify: a non-zero replaces_id is returned as it
\* is, a zero one gets the next id of the service's counter (a uint32 that skips
\* 0 when it wraps; here it wraps after MaxId).
NotifyReturn(replaces_id, counter) ==
    IF replaces_id # 0 THEN replaces_id ELSE (counter % MaxId) + 1

NotFoundMessage(device_name) == [kind |-> "not_found", name |-> device_name]

SinkMessage(name) == [kind |-> "sink", name |-> name]

\* The Notify call send_notification makes.
Note(message, notification_id, counter) ==
    LET replaces_id == Marshalled(ReplacementId(notification_id))
    IN  [message |-> message, replaces_id |-> replaces_id,
         returned |-> NotifyReturn(replaces_id, counter)]

\* ---------------------------------------------------------------- pacmd calls
SetDefaultSinkCmd(sink) == [cmd |-> "set-default-sink", input |-> -1, sink |-> sink.index]

\* A plausible slip: the two indices in the wrong order.
MoveSwappedCmd(sink_input, sink) ==
    [cmd |-> "move-sink-input", input |-> sink.index, sink |-> sink_input.index]

MoveSinkInputCmd(sink_input, sink) ==
    [cmd |-> "move-sink-input", input |-> sink_input.index, sink |-> sink.index]

\* ------------------------------------------------------------ call signatures
\* Parameters without a default of the two functions main's branches call.
SwitchToSinkParams == {"sink", "notify", "notification_id"}

SwitchToSinkWithNameParams == {"sinks", "notify", "device_name", "notification_id"}

\* Keyword arguments given at the call sites of lines 80 and 195.
NextSinkCallArgs == {"sink", "notify"}

MatchCallArgs == {"sinks", "device_name", "notify"}

\* A call binds when every parameter without a default is given.
Binds(params, given) == params \subseteq given

\* ------------------------------------------------------------- command lines
Namespace(list, match, group, notify) ==
    [list |-> list, match |-> match, match_next_group |-> group, notify |-> notify]

GroupNames == {DAC, Mic, HdmiOut, BT}

RECURSIVE SeqsUpTo(_, _)
SeqsUpTo(S, n) ==
    IF n = 0 THEN {<<>>}
    ELSE LET shorter == SeqsUpTo(S, n - 1)
         IN  shorter \cup {Append(q, x) : q \in shorter, x \in S}

\* nargs='+': at least one name
Groups == SeqsUpTo(GroupNames, MaxGroupLen) \ {<<>>}

ArgsNone == {Namespace(FALSE, PyNone, <<>>, n) : n \in BOOLEAN}

ArgsList == {Namespace(TRUE, PyNone, <<>>, n) : n \in BOOLEAN}

ArgsMatch == {Namespace(FALSE, PyStr(m), <<>>, n) : m \in {USB, <<>>}, n \in BOOLEAN}

ArgsGroup == {Namespace(FALSE, PyNone, g, n) : g \in Groups, n \in BOOLEAN}

\* The group command lines of a session that mixes the modes.
ArgsGroupMixed ==
    {Namespace(FALSE, PyNone, g, n) :
        g \in {<<DAC, Mic>>, <<HdmiOut, DAC>>, <<DAC, BT>>}, n \in BOOLEAN}

Args == ArgsNone \cup ArgsList \cup ArgsMatch \cup ArgsGroupMixed

\* The branch main takes (lines 188-201).
Branch(a) ==
    CASE a.list -> "list"
      [] Truthy(a.match) -> "match"
      [] a.match_next_group # <<>> -> "group"
      [] OTHER -> "next"

\* ------------------------------------------------------------ initial states
StartFiles ==
    {FileAbsent, FileUnreadable, FileText(<<>>), FileText(DAC),
     FileText(SavedText(Mic, PyInt(1)))}

\* Any command line of Args at every invocation.
AnyCommand ==
    [kind |-> "any", family |-> "mixed", bound |-> FALSE,
     a |-> Namespace(FALSE, PyNone, <<>>, FALSE)]

\* One command line of the family, the same at every invocation: the first
\* invocation picks it.
Repeated(family) ==
    [kind |-> "repeated", family |-> family, bound |-> FALSE,
     a |-> Namespace(FALSE, PyNone, <<>>, FALSE)]

Family(name) ==
    CASE name = "group" -> ArgsGroup
      [] name = "next"  -> ArgsNone
      [] OTHER          -> Args

Allowed(s) == IF s.kind = "repeated" /\ s.bound THEN {s.a} ELSE Family(s.family)

InitWith(inventories, playing, files, sessions) ==
    /\ server_sinks \in inventories
    /\ streams \in playing
    /\ default_sink = -1
    /\ file \in files
    /\ notif_counter = 0
    /\ session \in sessions
    /\ pc = "idle"
    /\ args = Namespace(FALSE, PyNone, <<>>, FALSE)
    /\ sinks = <<>>
    /\ loaded = [current_match |-> PyNone, notification_id |-> PyInt(0)]
    /\ next_value = <<>>
    /\ target = NoSink
    /\ inputs = <<>>
    /\ cmds = <<>>
    /\ notes = <<>>
    /\ new_id = PyNone
    /\ switched = FALSE
    /\ exit_status = -1
    /\ raised = ""
    /\ rot = [ok |-> file = FileAbsent /\ session.kind = "repeated", group |-> <<>>, k |-> 0]
    /\ prev_handle = 0
    /\ only_gn = (file = FileAbsent)
    /\ late = {}
    /\ listed = {}

Init == InitWith(Inventories, {{}}, StartFiles, {AnyCommand})

\* ------------------------------------------------------------------ actions
Finish(status, exception) ==
    /\ pc' = "done"
    /\ exit_status' = status
    /\ raised' = exception

\* A process starts: argparse, then get_sinks (lines 185-187).
Invoke ==
    /\ pc \in {"idle", "done"}
    /\ \E a \in Allowed(session) :
        /\ args' = a
        /\ rot' = IF /\ rot.ok
                     /\ Branch(a) = "group"
                     /\ rot.k < MaxRuns
                     /\ rot.k = 0 \/ rot.group = a.match_next_group
                  THEN [ok |-> TRUE, group |-> a.match_next_group, k |-> rot.k + 1]
                  ELSE [ok |-> FALSE, group |-> <<>>, k |-> 0]
        /\ only_gn' = (only_gn /\ Branch(a) = "group" /\ a.notify)
        /\ session' = IF session.kind = "repeated"
                      THEN [session EXCEPT !.bound = TRUE, !.a = a]
                      ELSE session
    /\ sinks' = get_sinks(server_sinks)
    /\ prev_handle' = IF notes # <<>> THEN notes[Len(notes)].returned ELSE prev_handle
    /\ pc' = "main"
    /\ loaded' = [current_match |-> PyNone, notification_id |-> PyInt(0)]
    /\ next_value' = <<>>
    /\ target' = NoSink
    /\ inputs' = <<>>
    /\ cmds' = <<>>
    /\ notes' = <<>>
    /\ new_id' = PyNone
    /\ switched' = FALSE
    /\ exit_status' = -1
    /\ raised' = ""
    /\ late' = {}
    /\ listed' = {}
    /\ UNCHANGED <<server, file, notif_counter>>

\* --list (lines 188-193)
List ==
    /\ pc = "main"
    /\ Branch(args) = "list"
    /\ inputs' = get_sink_inputs(streams)
    /\ Finish(0, "")
    /\ UNCHANGED <<server, file, notif_counter, session, args, sinks, loaded, next_value,
                   target, cmds, notes, new_id, switched, observers, watch>>

\* --match NAME (lines 194-195): the call gives no notification_id.
Match ==
    /\ pc = "main"
    /\ Branch(args) = "match"
    /\ ~Binds(SwitchToSinkWithNameParams, MatchCallArgs)
    /\ Finish(1, "TypeError")
    /\ UNCHANGED <<server, file, notif_counter, session, args, sinks, loaded, next_value,
                   target, inputs, cmds, notes, new_id, switched, observers, watch>>

\* No mode flag (lines 200-201, 72-80): the call at line 80 gives no notification_id.
NextSink ==
    /\ pc = "main"
    /\ Branch(args) = "next"
    /\ IF sinks = <<>>
       THEN /\ Finish(1, "IndexError")
            /\ UNCHANGED target
       ELSE /\ target' = NextSinkTarget(sinks)
            /\ ~Binds(SwitchToSinkParams, NextSinkCallArgs)
            /\ Finish(1, "TypeError")
    /\ UNCHANGED <<server, file, notif_counter, session, args, sinks, loaded, next_value,
                   inputs, cmds, notes, new_id, switched, observers, watch>>

\* What a missed group entry leaves in the scratch file (lines 117-119: nothing
\* is written unless switched).
\* A plausible slip: persist the advance whether or not the switch happened.
FileAfterMissAdvanced(old, name, id) == FileText(SavedText(name, id))

FileAfterMiss(old, name, id) == old

\* --match-next-group (lines 196-199, 83-116, 133-146): load the state, choose
\* the entry, resolve it; a hit enters switch_to_sink, a miss notifies and returns.
GroupSelect ==
    /\ pc = "main"
    /\ Branch(args) = "group"
    /\ \E st \in {LoadState(file)} :
       \E chosen \in {NextValue(args.match_next_group, st.current_match)} :
       \E hit \in {FirstMatch(sinks, chosen)} :
           IF st.raised # ""
           THEN /\ Finish(1, st.raised)
                /\ UNCHANGED <<loaded, next_value, target, notes, new_id, notif_counter, file>>
           ELSE /\ loaded' = [current_match |-> st.current_match,
                              notification_id |-> st.notification_id]
                /\ next_value' = chosen
                /\ IF hit # 0
                   THEN /\ target' = sinks[hit]
                        /\ pc' = "set_default"
                        /\ UNCHANGED <<notes, new_id, notif_counter, file, exit_status, raised>>
                   ELSE /\ UNCHANGED target
                        /\ IF ~args.notify
                           THEN /\ new_id' = st.notification_id
                                /\ file' = FileAfterMiss(file, chosen, st.notification_id)
                                /\ Finish(0, "")
                                /\ UNCHANGED <<notes, notif_counter>>
                           ELSE IF ~Marshals(ReplacementId(st.notification_id))
                           THEN /\ Finish(1, "ValueError")
                                /\ UNCHANGED <<notes, new_id, notif_counter, file>>
                           ELSE LET n == Note(NotFoundMessage(chosen), st.notification_id,
                                              notif_counter)
                                IN  /\ notes' = Append(notes, n)
                                    /\ notif_counter' = IF n.replaces_id = 0 THEN n.returned
                                                        ELSE notif_counter
                                    /\ new_id' = PyInt(n.returned)
                                    /\ file' = FileAfterMiss(file, chosen, PyInt(n.returned))
                                    /\ Finish(0, "")
    /\ UNCHANGED <<server, session, args, sinks, inputs, cmds, switched, observers, watch>>

\* switch_to_sink, line 155
SetDefaultSink ==
    /\ pc = "set_default"
    /\ cmds' = Append(cmds, SetDefaultSinkCmd(target))
    /\ default_sink' = target.index
    /\ pc' = "fetch"
    /\ UNCHANGED <<server_sinks, streams, file, notif_counter, session, args, sinks, loaded,
                   next_value, target, inputs, notes, new_id, switched, exit_status, raised,
                   observers, watch>>

\* switch_to_sink, line 157: the sink-inputs are listed now
FetchInputs ==
    /\ pc = "fetch"
    /\ inputs' = get_sink_inputs(streams)
    /\ listed' = streams
    /\ pc' = "move"
    /\ UNCHANGED <<server, file, notif_counter, session, args, sinks, loaded, next_value,
                   target, cmds, notes, new_id, switched, exit_status, raised, observers, late>>

\* switch_to_sink, line 158: one pass of the loop; a sink-input that is gone by
\* now makes pacmd fail, which subprocess.call does not raise.
MoveInput ==
    /\ pc = "move"
    /\ Len(cmds) <= Len(inputs)
    /\ LET sink_input == inputs[Len(cmds)]
           c == MoveSinkInputCmd(sink_input, target)
       IN  /\ cmds' = Append(cmds, c)
    /\ UNCHANGED <<server, file, notif_counter, session, pc, args, sinks,
                   loaded, next_value, target, inputs, notes, new_id, switched, exit_status,
                   raised, observers, watch>>

\* switch_to_sink, lines 159-160, the return through switch_to_sink_with_name
\* (line 139) and the save (lines 117-119).
ReturnAndSave ==
    /\ pc = "move"
    /\ Len(cmds) = Len(inputs) + 1
    /\ IF ~args.notify
       THEN /\ new_id' = PyNone
            /\ switched' = TRUE
            /\ file' = FileText(SavedText(next_value, PyNone))
            /\ Finish(0, "")
            /\ UNCHANGED <<notes, notif_counter>>
       ELSE IF ~Marshals(ReplacementId(loaded.notification_id))
       THEN /\ Finish(1, "ValueError")
            /\ UNCHANGED <<notes, new_id, notif_counter, file, switched>>
       ELSE LET n == Note(SinkMessage(target.name), loaded.notification_id, notif_counter)
            IN  /\ notes' = Append(notes, n)
                /\ notif_counter' = IF n.replaces_id = 0 THEN n.returned ELSE notif_counter
                /\ new_id' = PyInt(n.returned)
                /\ switched' = TRUE
                /\ file' = FileText(SavedText(next_value, PyInt(n.returned)))
                /\ Finish(0, "")
    /\ UNCHANGED <<server, session, args, sinks, loaded, next_value, target, inputs, cmds,
                   observers, watch>>

\* ------------------------------------------------------------ the environment
BeforeFetch == pc \in {"main", "set_default", "fetch"}

\* Between two invocations the streams change as well; Invoke reads the sinks
\* only, so such a change is enumerated as one made right after Invoke.
Running == pc \notin {"idle", "done"}

\* An application starts playing.
StreamOpens ==
    /\ Running
    /\ \E id \in StreamIds \ streams :
        /\ streams' = streams \cup {id}
        /\ late' = IF BeforeFetch THEN late \cup {id} ELSE late
    /\ UNCHANGED <<server_sinks, default_sink, file, notif_counter, session, pc, locals,
                   observers, listed>>

\* An application stops playing.
StreamCloses ==
    /\ Running
    /\ \E id \in streams :
        /\ streams' = streams \ {id}
        /\ late' = IF BeforeFetch THEN late \ {id} ELSE late
    /\ UNCHANGED <<server_sinks, default_sink, file, notif_counter, session, pc, locals,
                   observers, listed>>

Program ==
    \/ Invoke
    \/ List
    \/ Match
    \/ NextSink
    \/ GroupSelect
    \/ SetDefaultSink
    \/ FetchInputs
    \/ MoveInput
    \/ ReturnAndSave

Environment ==
    \/ StreamOpens
    \/ StreamCloses

Next == Program \/ Environment

Spec == Init /\ [][Next]_vars

\* --------------------------------------------- the next-sink policy on its own
\* Every sink list up to MaxSinks sinks, the no-argument command line only.
InitSelect == InitWith(AllInventories, {{}}, {FileAbsent}, {Repeated("next")})

NextSelect == Invoke \/ NextSink

SpecSelect == InitSelect /\ [][NextSelect]_vars

\* ---------------------------------------------------- one group, again and again
\* No scratch file to start with, a fixed sink inventory and a fixed set of
\* streams, and the same --match-next-group command line at every invocation; the
\* user keeps pressing the key and every invocation runs on.
InitRot ==
    InitWith({StudioInventory}, {{}, StreamIds}, {FileAbsent}, {Repeated("group")})

RotProgram ==
    \/ Invoke
    \/ GroupSelect
    \/ SetDefaultSink
    \/ FetchInputs
    \/ MoveInput
    \/ ReturnAndSave

NextRot == RotProgram

SpecRot == InitRot /\ [][NextRot]_vars /\ WF_vars(RotProgram)

\* ------------------------------------------------------------------- claims
Distinct(g) == \A i, j \in 1..Len(g) : i # j => g[i] # g[j]

Resolves(ss, name) == FirstMatch(ss, name) # 0

\* The invocation issued set-default-sink for the sink name resolves to.
Activated(name) ==
    /\ cmds # <<>>
    /\ Resolves(sinks, name)
    /\ cmds[1] = SetDefaultSinkCmd(sinks[FirstMatch(sinks, name)])

\* The k-th entry of the round robin over g.
RoundRobin(g, k) == g[((k - 1) % Len(g)) + 1]

\* C1: from no scratch file, the k-th --match-next-group invocation with a group of
\* distinct names that each resolve to a sink activates the sink of
\* group[(k-1) mod n] and leaves that name persisted as lastMatchedName.
C1_RoundRobin ==
    (/\ pc = "done"
     /\ rot.ok
     /\ rot.k >= 1
     /\ Distinct(rot.group)
     /\ \A i \in 1..Len(rot.group) : Resolves(sinks, rot.group[i]))
    => /\ Activated(RoundRobin(rot.group, rot.k))
       /\ LoadState(file).current_match = PyStr(RoundRobin(rot.group, rot.k))

\* C2: the scratch file changes only in the step that ends a --match-next-group
\* invocation whose chosen name resolved to a sink and was switched to.
C2_FileWrittenOnlyOnSwitch ==
    [][file' # file =>
        /\ Branch(args) = "group"
        /\ Activated(next_value)
        /\ pc = "move"
        /\ pc' = "done"
        /\ switched']_vars

\* A miss has completed over a state an earlier rotation persisted.
C2_Witness ==
    /\ pc = "done"
    /\ Branch(args) = "group"
    /\ exit_status = 0
    /\ ~Resolves(sinks, next_value)
    /\ file.kind = "text"
    /\ LoadState(file).current_match = PyStr(DAC)
    /\ next_value = BT

\* C3: --match NAME --notify where no sink name contains NAME ends with exactly
\* one notification "No device with name NAME found", no pacmd command, status 0.
C3_MatchMissNotified ==
    (/\ pc = "done"
     /\ Branch(args) = "match"
     /\ args.notify
     /\ ~Resolves(sinks, args.match.s))
    => /\ Len(notes) = 1
       /\ notes[1].message = NotFoundMessage(args.match.s)
       /\ cmds = <<>>
       /\ exit_status = 0

\* The reference of the next-sink policy: after the last selected sink, wrapping;
\* the first sink when none is selected.
NextSinkReference(ss) ==
    IF \A i \in 1..Len(ss) : ~ss[i].selected THEN ss[1]
    ELSE LET j == CHOOSE k \in 1..Len(ss) :
                    ss[k].selected /\ \A m \in (k + 1)..Len(ss) : ~ss[m].selected
         IN  ss[(j % Len(ss)) + 1]

\* C4: on every non-empty sink list the target switch_to_next_sink chooses is
\* the sink after the last selected one (wrapping), or the first sink when none
\* is selected.
C4_NextSinkPolicy ==
    (pc = "done" /\ Branch(args) = "next" /\ sinks # <<>>)
    => target = NextSinkReference(sinks)

\* Two selected sinks, the last of them at the end of the list: the target wraps.
C4_Witness ==
    /\ pc = "done"
    /\ Branch(args) = "next"
    /\ Len(sinks) = 3
    /\ sinks[1].selected
    /\ ~sinks[2].selected
    /\ sinks[3].selected
    /\ target = sinks[1]

\* C5: with no arguments on [Sink(0, Speakers, RUNNING), Sink(1, Headphones, IDLE)]
\* the run ends with set-default-sink 1 issued and one move-sink-input to sink 1
\* per current stream.
C5_DeskSwitchesToHeadphones ==
    (/\ pc = "done"
     /\ args = Namespace(FALSE, PyNone, <<>>, FALSE)
     /\ sinks = <<Sink(0, Speakers, "RUNNING"), Sink(1, Headphones, "IDLE")>>)
    => /\ cmds # <<>>
       /\ cmds[1] = [cmd |-> "set-default-sink", input |-> -1, sink |-> 1]
       /\ Len(cmds) = Len(inputs) + 1
       /\ \A i \in 2..Len(cmds) : cmds[i].cmd = "move-sink-input" /\ cmds[i].sink = 1

\* A line that is exactly a name and an integer handle joined by one comma.
WellFormedLine(t) == Len(Split(t)) = 2 /\ IsDigits(Split(t)[2])

\* C6: whatever the scratch file is (absent, unreadable, empty, not a name and an
\* integer joined by one comma), loading raises nothing and yields (none, 0), and
\* the invocation goes on with group[0].
C6_LoadNeverFails ==
    (/\ Branch(args) = "group"
     /\ pc \notin {"idle", "main"}
     /\ ~switched
     /\ file.kind = "text" => ~WellFormedLine(file.text))
    => /\ raised # "PermissionError"
       /\ loaded = [current_match |-> PyNone, notification_id |-> PyInt(0)]
       /\ next_value = args.match_next_group[1]

\* C7: the state a successful rotation wrote (a name, an integer handle) is the
\* state the next load reads: the same name, the same integer.
C7_SaveLoadRoundTrip ==
    (pc = "done" /\ switched /\ new_id.t = "int")
    => LET st == LoadState(file)
       IN  /\ st.raised = ""
           /\ st.current_match = PyStr(next_value)
           /\ Marshals(st.notification_id)
           /\ Marshalled(st.notification_id) = new_id.n

RECURSIVE Ascending(_)
Ascending(ids) ==
    IF ids = {} THEN <<>>
    ELSE LET m == CHOOSE x \in ids : \A y \in ids : x <= y
         IN  <<m>> \o Ascending(ids \ {m})

\* C8: an activation issues set-default-sink for the target first, lists the
\* streams after that, and then issues exactly one move-sink-input per stream
\* listed, each to the target's index; so a stream opened after the sinks were
\* read and alive at the listing is moved.
C8_SwitchOrder ==
    /\ cmds # <<>> =>
        /\ cmds[1] = [cmd |-> "set-default-sink", input |-> -1, sink |-> target.index]
        /\ \A i \in 2..Len(cmds) :
              cmds[i].cmd = "move-sink-input" /\ cmds[i].sink = cmds[1].sink
    /\ pc = "fetch" => Len(cmds) = 1
    /\ pc \in {"main", "set_default"} => cmds = <<>>
    /\ (pc = "done" /\ cmds # <<>>) =>
        /\ [i \in 1..(Len(cmds) - 1) |-> cmds[i + 1].input] = Ascending(listed)
        /\ \A s \in late : \E i \in 2..Len(cmds) : cmds[i].input = s

\* An activation has ended that moved two streams, one of them opened after the
\* sinks were read.
C8_Witness ==
    /\ pc = "done"
    /\ Len(cmds) = 3
    /\ late # {}
    /\ late # listed

\* C9: in a run of --match-next-group --notify invocations from no scratch file,
\* every Notify call passes the handle the service returned for the last
\* notification of the earlier invocations (0 when there was none).
C9_HandleReused ==
    only_gn => \A i \in 1..Len(notes) : notes[i].replaces_id = prev_handle

\* The entries of the session's group.
SessionGroup == session.a.match_next_group

InGroup(name) == \E i \in 1..Len(SessionGroup) : SessionGroup[i] = name

HasComma(name) == \E i \in 1..Len(name) : name[i] = ","

\* Every entry distinct, resolving to a sink, and free of the comma that joins the
\* two fields of the scratch file.
CleanGroup ==
    /\ Distinct(SessionGroup)
    /\ \A i \in 1..Len(SessionGroup) :
          Resolves(sinks, SessionGroup[i]) /\ ~HasComma(SessionGroup[i])

ActivatedNow(name) == pc = "done" /\ next_value = name /\ Activated(name)

====
